---- MODULE Spec2Model ----
(***************************************************************************)
(* A model of sage_analysis.model.Model: its constructor, the validated    *)
(* attributes volume and IMF, the property store with its three            *)
(* initialisers and its item lookup (a defaultdict of plain dicts), and    *)
(* calc_properties_all_files / calc_properties, which                      *)
(* drive a data class (update_snapshot_and_data_path, determine_num_gals,  *)
(* read_gals, close_file) and a dictionary of calculation functions.       *)
(*                                                                         *)
(* Python values are encoded so that TLC can compare them:                 *)
(*   an Optional value is a sequence, <<>> for None and <<v>> for v;       *)
(*   a float accumulator is [kind |-> "float", val |-> <<x>>];             *)
(*   a numpy array accumulator is [kind |-> "ndarray", val |-> <<..>>];    *)
(*   a dict is a function whose DOMAIN is the set of its keys.             *)
(* Numbers are integers: every mass, count and bin edge of the model is a  *)
(* small integer, on which float64 arithmetic is exact.                    *)
(***************************************************************************)
EXTENDS Integers, Sequences, FiniteSets, TLC

VARIABLES
    phase,                  \* "new" | "constructed" | "failed": the Model object
    last,                   \* the last method called on the Model: [op, arg, err]
    sage_output_format,     \* self._sage_output_format (Optional)
    first_file_to_analyze,  \* self._first_file_to_analyze (Optional)
    last_file_to_analyze,   \* self._last_file_to_analyze (Optional)
    num_sage_output_files,  \* self._num_sage_output_files (Optional)
    IMF,                    \* self._IMF (Optional: unset before construction)
    box_size,               \* self._box_size, filled in by the data class
    volume,                 \* self._volume (Optional: unset until assigned)
    bins,                   \* self._bins: bin name -> edges
    properties,             \* self._properties: snapshot key -> name -> accumulator
    snapshot,               \* self._snapshot, set by the data class (Optional)
    num_gals_all_files,     \* self._num_gals_all_files (Optional)
    pc,                     \* position of calc_properties_all_files
    call,                   \* its arguments: [calculation_functions, snapshot, close_file]
    file_num,               \* its loop variable
    gals,                   \* the batch read for file_num (Optional)
    func_idx,               \* calc_properties: index of the next registry entry
    outcome,                \* how the last call ended: "none" | "returned" | an error
    trace,                  \* what the current/last call asked of its collaborators
    properties0,            \* the property store when the last method call started
    bins0,                  \* the bin registry when the last method call started
    ops_left                \* the method calls the run is still followed for

configVars == <<phase, last, sage_output_format, first_file_to_analyze,
                last_file_to_analyze, num_sage_output_files, IMF, box_size, volume>>
storeVars  == <<bins, properties>>
engineVars == <<snapshot, num_gals_all_files, pc, call, file_num, gals, func_idx,
                outcome, trace, properties0, bins0, ops_left>>
vars       == <<configVars, storeVars, engineVars>>

----------------------------------------------------------------------------
(* Bounds of the model *)

MaxFile     == 1    \* sub-file indexes are 0..MaxFile
MaxSnapshot == 1    \* snapshot indexes are 0..MaxSnapshot
MaxBoxSize  == 2    \* box sizes are 1..MaxBoxSize
MaxVolume   == 9    \* assigned volumes are 0..MaxVolume
MaxOps      == 2    \* method calls on a constructed Model that one run is followed for

----------------------------------------------------------------------------
(* Python values *)

None    == <<>>
Some(x) == <<x>>
Val(o)  == o[1]

EmptyDict == [x \in {} |-> 0]
Put(d, k, v) == [x \in (DOMAIN d) \cup {k} |-> IF x = k THEN v ELSE d[x]]

FileIndexes == 0..MaxFile
Snapshots   == 0..MaxSnapshot
OutputFormats == {None, Some("sage_binary"), Some("sage_hdf5")}
FileArgs    == {None} \cup {Some(f) : f \in FileIndexes}
NumFileArgs == {None, Some(MaxFile + 1)}
IMFArgs     == {"Chabrier", "Salpeter", "Kroupa"}
BoxSizes    == 1..MaxBoxSize
Volumes     == 0..MaxVolume

----------------------------------------------------------------------------
(* Model.__init__ *)

\* A constructor that checks only the file count
InitErrorCountOnly(fmt, first, lastf, num) ==
    IF num = None /\ fmt = Some("sage_binary") THEN "RuntimeError" ELSE "none"

\* The validation of the constructor: the error it raises, or "none".
InitError(fmt, first, lastf, num) ==
    IF num = None /\ fmt = Some("sage_binary")
    THEN "RuntimeError"
    ELSE IF (first = None \/ lastf = None) /\ fmt = Some("sage_binary")
         THEN "RuntimeError"
         ELSE "none"

\* The IMF attribute as the constructor stores it: assigned to self._IMF directly.
InitIMF(imf) == Some(imf)

\* The attribute values of a newly constructed Model.
ModelInit(fmt, first, lastf, num, imf) ==
    [ sage_output_format    |-> fmt,
      IMF                   |-> InitIMF(imf),
      first_file_to_analyze |-> first,
      last_file_to_analyze  |-> lastf,
      num_sage_output_files |-> num,
      bins                  |-> EmptyDict,
      properties            |-> EmptyDict ]

Idle ==
    /\ snapshot = None
    /\ num_gals_all_files = None
    /\ pc = "idle"
    /\ call = None
    /\ file_num = None
    /\ gals = None
    /\ func_idx = 0
    /\ outcome = "none"
    /\ trace = <<>>

\* Before Model(...) is evaluated: no object yet.
InitConfig ==
    /\ phase = "new"
    /\ last = [op |-> "none", arg |-> <<>>, err |-> "none"]
    /\ sage_output_format = None
    /\ first_file_to_analyze = None
    /\ last_file_to_analyze = None
    /\ num_sage_output_files = None
    /\ IMF = None
    /\ box_size \in BoxSizes
    /\ volume = None
    /\ bins = EmptyDict
    /\ properties = EmptyDict
    /\ properties0 = EmptyDict
    /\ bins0 = EmptyDict
    /\ Idle
    /\ ops_left = MaxOps

Construct ==
    /\ phase = "new"
    /\ \E fmt \in OutputFormats, first \in FileArgs, lastf \in FileArgs,
          num \in NumFileArgs, imf \in IMFArgs :
         LET e == InitError(fmt, first, lastf, num)
             m == ModelInit(fmt, first, lastf, num, imf)
         IN /\ last' = [op |-> "__init__", arg |-> <<fmt, first, lastf, num, imf>>, err |-> e]
            /\ IF e = "none"
               THEN /\ phase' = "constructed"
                    /\ sage_output_format' = m.sage_output_format
                    /\ IMF' = m.IMF
                    /\ first_file_to_analyze' = m.first_file_to_analyze
                    /\ last_file_to_analyze' = m.last_file_to_analyze
                    /\ num_sage_output_files' = m.num_sage_output_files
                    /\ bins' = m.bins
                    /\ properties' = m.properties
               ELSE /\ phase' = "failed"
                    /\ UNCHANGED <<sage_output_format, IMF, first_file_to_analyze,
                                   last_file_to_analyze, num_sage_output_files,
                                   bins, properties>>
    /\ UNCHANGED <<box_size, volume, engineVars>>

----------------------------------------------------------------------------
(* The validated attributes *)

\* pow(b, n) for a natural exponent
RECURSIVE Pow(_, _)
Pow(b, n) == IF n = 0 THEN 1 ELSE b * Pow(b, n - 1)

\* A setter that rejects the volume of the whole box as well
VolumeErrorStrict(vol) == IF vol >= Pow(box_size, 3) THEN "ValueError" ELSE "none"

\* volume.setter: the error it raises for vol, or "none".
VolumeError(vol) == IF vol > Pow(box_size, 3) THEN "ValueError" ELSE "none"

SetVolume ==
    /\ phase = "constructed"
    /\ pc = "idle"
    /\ \E vol \in Volumes :
         LET e == VolumeError(vol)
         IN /\ last' = [op |-> "volume", arg |-> <<vol>>, err |-> e]
            /\ volume' = IF e = "none" THEN Some(vol) ELSE volume
    /\ UNCHANGED <<phase, sage_output_format, first_file_to_analyze, last_file_to_analyze,
                   num_sage_output_files, IMF, box_size, storeVars, engineVars>>

allowed_IMF == {"Chabrier", "Salpeter"}

\* A setter that performs no validation
IMFErrorNone(imf) == "none"

\* IMF.setter: the error it raises for imf, or "none".
IMFError(imf) == IF imf \notin allowed_IMF THEN "ValueError" ELSE "none"

SetIMF ==
    /\ phase = "constructed"
    /\ pc = "idle"
    /\ \E imf \in IMFArgs :
         LET e == IMFError(imf)
         IN /\ last' = [op |-> "IMF", arg |-> <<imf>>, err |-> e]
            /\ IMF' = IF e = "none" THEN Some(imf) ELSE IMF
    /\ UNCHANGED <<phase, sage_output_format, first_file_to_analyze, last_file_to_analyze,
                   num_sage_output_files, box_size, volume, storeVars, engineVars>>

ConfigNext == Construct \/ SetVolume \/ SetIMF

ConfigSpec == InitConfig /\ [][ConfigNext]_vars

----------------------------------------------------------------------------
(* The property store and the bin registry *)

BinLows       == {0}
BinHighs      == {3}
BinWidths     == {1, 2}
BinNames      == {"stellar_mass_bins"}
PropertyNames == {"SMF", "TotalMass"}
NameLists     == {{"TotalMass"}, {"SMF", "TotalMass"}}    \* the property_names arguments

\* f"snapshot_{snapshot}"
SnapKey(s) == <<"snapshot_", s>>

Float(x)   == [kind |-> "float", val |-> <<x>>]
NdArray(a) == [kind |-> "ndarray", val |-> a]

\* A sequence of edges that includes stop when the steps reach it
ArangeInclusive(start, stop, step) ==
    LET n == IF stop >= start THEN ((stop - start) \div step) + 1 ELSE 0
    IN [i \in 1..n |-> start + (i - 1) * step]

\* np.arange(start, stop, step) on integers, for step > 0
Arange(start, stop, step) ==
    LET n == IF stop > start THEN (stop - start + step - 1) \div step ELSE 0
    IN [i \in 1..n |-> start + (i - 1) * step]

\* np.zeros(n)
Zeros(n) == [i \in 1..n |-> 0]

\* self.properties[key]: _properties is a defaultdict(dict), so looking up a
\* key it does not hold stores an empty dict under that key.
Touch(props, key) == IF key \in DOMAIN props THEN props ELSE Put(props, key, EmptyDict)

\* An initialiser that stores a new dictionary under the snapshot key
SetAllFresh(props, key, names, acc) ==
    Put(props, key, [n \in names |-> acc])

\* for my_property in property_names: self.properties[key][my_property] = acc
SetAll(props, key, names, acc) ==
    IF names = {}
    THEN props
    ELSE LET p == Touch(props, key)
         IN Put(p, key, [n \in (DOMAIN p[key]) \cup names |->
                            IF n \in names THEN acc ELSE p[key][n]])

CanInit == phase = "constructed" /\ pc \in {"idle", "returned", "raised"} /\ ops_left > 0

\* What a method of the store leaves alone. The locals and the record of an
\* earlier calc_properties_all_files call are dropped: they describe a call
\* that is over; properties0 and bins0 keep the store the method found.
StoreFrame ==
    /\ pc' = "idle"
    /\ ops_left' = ops_left - 1
    /\ call' = None
    /\ file_num' = None
    /\ gals' = None
    /\ func_idx' = 0
    /\ outcome' = "none"
    /\ trace' = <<>>
    /\ properties0' = properties
    /\ bins0' = bins
    /\ UNCHANGED <<phase, sage_output_format, first_file_to_analyze, last_file_to_analyze,
                   num_sage_output_files, IMF, box_size, volume>>
    /\ UNCHANGED <<snapshot, num_gals_all_files>>

\* An initialiser returns: last records the call and its arguments.
InitFrame(op, arg) ==
    /\ last' = [op |-> op, arg |-> arg, err |-> "none"]
    /\ StoreFrame

init_binned_properties ==
    /\ CanInit
    /\ \E bin_low \in BinLows, bin_high \in BinHighs, bin_width \in BinWidths,
          bin_name \in BinNames, property_names \in NameLists, s \in Snapshots :
         LET edges == Arange(bin_low, bin_high + bin_width, bin_width)
         IN /\ bins' = Put(bins, bin_name, edges)
            /\ properties' = SetAll(properties, SnapKey(s), property_names,
                                    NdArray(Zeros(Len(edges) - 1)))
            /\ InitFrame("init_binned_properties",
                         <<bin_low, bin_high, bin_width, bin_name, property_names, s>>)

init_scatter_properties ==
    /\ CanInit
    /\ \E property_names \in NameLists, s \in Snapshots :
         /\ properties' = SetAll(properties, SnapKey(s), property_names, NdArray(<<>>))
         /\ InitFrame("init_scatter_properties", <<property_names, s>>)
    /\ bins' = bins

init_single_properties ==
    /\ CanInit
    /\ \E property_names \in NameLists, s \in Snapshots :
         /\ properties' = SetAll(properties, SnapKey(s), property_names, Float(0))
         /\ InitFrame("init_single_properties", <<property_names, s>>)
    /\ bins' = bins

\* A store whose inner dictionaries give 0.0 for a name they do not hold
GetItemDefault(props, key, name) ==
    LET p == Touch(props, key)
    IN [properties |-> p, err |-> "none",
        ret |-> IF name \in DOMAIN p[key] THEN Some(p[key][name]) ELSE Some(Float(0))]

\* self.properties[key][name]: the outer dictionary is a defaultdict(dict),
\* the inner one a dict, which raises KeyError for a name it does not hold.
GetItem(props, key, name) ==
    LET p == Touch(props, key)
    IN IF name \in DOMAIN p[key]
       THEN [properties |-> p, err |-> "none", ret |-> Some(p[key][name])]
       ELSE [properties |-> p, err |-> "KeyError", ret |-> None]

\* A caller reads model.properties[f"snapshot_{s}"][name]
Lookup ==
    /\ CanInit
    /\ \E name \in PropertyNames, s \in Snapshots :
         LET r == GetItem(properties, SnapKey(s), name)
         IN /\ properties' = r.properties
            /\ last' = [op |-> "properties", arg |-> <<s, name>>, err |-> r.err, ret |-> r.ret]
    /\ bins' = bins
    /\ StoreFrame

----------------------------------------------------------------------------
(* The collaborators of the engine: the batches a data class returns and   *)
(* the calculation functions of the registry                               *)

Batches == {<<1, 2>>, <<3>>}                \* the masses of the galaxies of one sub-file
ReadResults == {None} \cup {Some(b) : b \in Batches}
GalCounts == {0, 3}                         \* what determine_num_gals may report

RECURSIVE Sum(_)
Sum(a) == IF a = <<>> THEN 0 ELSE a[1] + Sum(Tail(a))

\* np.histogram(masses, bins=edges)[0]: bin i is [edges[i], edges[i+1]), the
\* last bin is closed on the right.
InBin(x, edges, i) ==
    /\ edges[i] <= x
    /\ \/ x < edges[i + 1]
       \/ i = Len(edges) - 1 /\ x = edges[i + 1]
Histogram(masses, edges) ==
    [i \in 1..(Len(edges) - 1) |->
        Cardinality({j \in 1..Len(masses) : InBin(masses[j], edges, i)})]

\* acc += c for a number c
AddScalar(acc, c) ==
    IF acc.kind = "float"
    THEN Float(acc.val[1] + c)
    ELSE NdArray([i \in 1..Len(acc.val) |-> acc.val[i] + c])

\* Whether acc += counts is defined for an array counts (numpy broadcasting)
CanAddArray(acc, counts) ==
    acc.kind = "float" \/ Len(counts) = Len(acc.val) \/ Len(counts) = 1

\* acc += counts for an array counts
AddArray(acc, counts) ==
    IF acc.kind = "float"
    THEN NdArray([i \in 1..Len(counts) |-> acc.val[1] + counts[i]])
    ELSE IF Len(counts) = Len(acc.val)
         THEN NdArray([i \in 1..Len(acc.val) |-> acc.val[i] + counts[i]])
         ELSE NdArray([i \in 1..Len(acc.val) |-> acc.val[i] + counts[1]])

\* calc_TotalMass(model, gals, snapshot, scale):
\*     model.properties[f"snapshot_{snapshot}"]["TotalMass"] += scale * sum(masses)
calc_TotalMass(props, bns, batch, snap, kwargs) ==
    IF DOMAIN kwargs # {"scale"}
    THEN [properties |-> props, err |-> "TypeError"]
    ELSE LET key == SnapKey(snap)
             p   == Touch(props, key)
         IN IF "TotalMass" \notin DOMAIN p[key]
            THEN [properties |-> p, err |-> "KeyError"]
            ELSE [properties |->
                      Put(p, key, Put(p[key], "TotalMass",
                          AddScalar(p[key]["TotalMass"], kwargs.scale * Sum(batch)))),
                  err |-> "none"]

\* calc_SMF(model, gals, snapshot, bin_name):
\*     counts, _ = np.histogram(masses, bins=model.bins[bin_name])
\*     model.properties[f"snapshot_{snapshot}"]["SMF"] += counts
calc_SMF(props, bns, batch, snap, kwargs) ==
    IF DOMAIN kwargs # {"bin_name"}
    THEN [properties |-> props, err |-> "TypeError"]
    ELSE IF kwargs.bin_name \notin DOMAIN bns
    THEN [properties |-> props, err |-> "KeyError"]
    ELSE LET key    == SnapKey(snap)
             p      == Touch(props, key)
             counts == Histogram(batch, bns[kwargs.bin_name])
         IN IF "SMF" \notin DOMAIN p[key]
            THEN [properties |-> p, err |-> "KeyError"]
            ELSE IF ~CanAddArray(p[key]["SMF"], counts)
            THEN [properties |-> p, err |-> "ValueError"]
            ELSE [properties |->
                      Put(p, key, Put(p[key], "SMF", AddArray(p[key]["SMF"], counts))),
                  err |-> "none"]

\* func(model, gals, snapshot, **kwargs)
Invoke(func, props, bns, batch, snap, kwargs) ==
    IF func = "calc_TotalMass"
    THEN calc_TotalMass(props, bns, batch, snap, kwargs)
    ELSE calc_SMF(props, bns, batch, snap, kwargs)

\* calc_properties(calculation_functions, gals, snapshot) as a function of the
\* store: every entry is invoked in turn; an error ends it.
RECURSIVE CalcProperties(_, _, _, _, _)
CalcProperties(props, bns, funcs, batch, snap) ==
    IF funcs = <<>>
    THEN [properties |-> props, err |-> "none"]
    ELSE LET r == Invoke(funcs[1].func, props, bns, batch, snap, funcs[1].kwargs)
         IN IF r.err # "none"
            THEN r
            ELSE CalcProperties(r.properties, bns, Tail(funcs), batch, snap)

\* The loop of calc_properties_all_files over files that hold the batches bs,
\* none of them skipped, as a function of the store.
RECURSIVE ProcessFiles(_, _, _, _, _)
ProcessFiles(props, bns, funcs, snap, bs) ==
    IF bs = <<>>
    THEN [properties |-> props, err |-> "none"]
    ELSE LET r == CalcProperties(props, bns, funcs, bs[1], snap)
         IN IF r.err # "none"
            THEN r
            ELSE ProcessFiles(r.properties, bns, funcs, snap, Tail(bs))

\* The entries of a calculation_functions dictionary: toggle -> (func, kwargs)
TotalMassEntry == [toggle |-> "TotalMass", func |-> "calc_TotalMass",
                   kwargs |-> [scale |-> 1]]
SMFEntry       == [toggle |-> "SMF", func |-> "calc_SMF",
                   kwargs |-> [bin_name |-> "stellar_mass_bins"]]
\* The dictionaries a caller passes, each in its insertion order
Registries == { <<TotalMassEntry>>, <<TotalMassEntry, SMFEntry>>,
                <<SMFEntry, TotalMassEntry>> }

----------------------------------------------------------------------------
(* Model.calc_properties_all_files and Model.calc_properties *)

Args == Val(call)

Event(e) == trace' = Append(trace, e)

\* An engine whose close_file call sits in a finally clause
UnwindCloses(evs) ==
    IF Args.close_file THEN Append(evs, [op |-> "close"]) ELSE evs

\* What the call has asked of its collaborators, evs, once an exception has
\* left it: no try statement encloses the loop, so nothing is added
Unwind(evs) == evs

\* An engine that starts every call with no accumulators for its snapshot
StoreResetAtEntry(s) ==
    IF SnapKey(s) \in DOMAIN properties
    THEN Put(properties, SnapKey(s), EmptyDict)
    ELSE properties

\* The property store as calc_properties_all_files(..., snapshot = s, ...) has
\* it before its first statement: nothing initialises or clears it
StoreAtEntry(s) == properties

\* calc_properties_all_files(calculation_functions, snapshot, close_file) is entered
CallAllFiles ==
    /\ phase = "constructed"
    /\ pc \in {"idle", "returned", "raised"}
    /\ ops_left > 0
    /\ \E funcs \in Registries, s \in Snapshots, cf \in BOOLEAN :
         /\ call' = Some([calculation_functions |-> funcs, snapshot |-> s, close_file |-> cf])
         /\ properties' = StoreAtEntry(s)
    /\ pc' = "position"
    /\ ops_left' = ops_left - 1
    /\ trace' = <<>>
    /\ outcome' = "none"
    /\ properties0' = properties
    /\ bins0' = bins
    /\ file_num' = None
    /\ gals' = None
    /\ func_idx' = 0
    /\ last' = [op |-> "calc_properties_all_files", arg |-> <<>>, err |-> "none"]
    /\ UNCHANGED <<phase, sage_output_format, first_file_to_analyze, last_file_to_analyze,
                   num_sage_output_files, IMF, box_size, volume>>
    /\ UNCHANGED <<bins, snapshot, num_gals_all_files>>

\* An engine that counts the galaxies without positioning the data class
PositionSkipped ==
    /\ pc = "position"
    /\ pc' = "count"
    /\ UNCHANGED <<configVars, storeVars, snapshot, num_gals_all_files, call, file_num, gals,
                   func_idx, outcome, trace, properties0, bins0, ops_left>>

\* self.data_class.update_snapshot_and_data_path(self, snapshot)
Position ==
    /\ pc = "position"
    /\ snapshot' = Some(Args.snapshot)
    /\ Event([op |-> "position", snapshot |-> Args.snapshot])
    /\ pc' = "count"
    /\ UNCHANGED <<configVars, storeVars, num_gals_all_files, call, file_num, gals,
                   func_idx, outcome, properties0, bins0, ops_left>>

\* A test that never finds the snapshot empty
NoGalaxiesNever(n) == n < 0

\* if self._num_gals_all_files == 0
NoGalaxies(n) == n = 0

\* self.data_class.determine_num_gals(self, snapshot), and the early return
\* when it found no galaxies
Count ==
    /\ pc = "count"
    /\ \E n \in GalCounts :
         /\ num_gals_all_files' = Some(n)
         /\ Event([op |-> "count", n |-> n])
         /\ IF NoGalaxies(n)
            THEN pc' = "returned" /\ outcome' = "returned"
            ELSE pc' = "range" /\ outcome' = outcome
    /\ UNCHANGED <<configVars, storeVars, snapshot, call, file_num, gals, func_idx,
                   properties0, bins0, ops_left>>

\* range(self.first_file_to_analyze, self.last_file_to_analyze + 1) is evaluated
RangeError == first_file_to_analyze = None \/ last_file_to_analyze = None

\* range(0, last + 1): a loop that starts at file 0 whatever the first file is
RangeStartZero == Some(0)

\* The first value of file_num
RangeStart == first_file_to_analyze

Range ==
    /\ pc = "range"
    /\ IF RangeError
       THEN /\ pc' = "raised" /\ outcome' = "TypeError" /\ file_num' = file_num
            /\ trace' = Unwind(trace)
       ELSE /\ pc' = "loop" /\ outcome' = outcome /\ file_num' = RangeStart
            /\ trace' = trace
    /\ UNCHANGED <<configVars, storeVars, snapshot, num_gals_all_files, call, gals,
                   func_idx, properties0, bins0, ops_left>>

\* range(first, last): a loop that leaves out the last file
MoreFilesExclusive == Val(file_num) < Val(last_file_to_analyze)

\* for file_num in range(first, last + 1): whether the loop has a file left
MoreFiles == Val(file_num) <= Val(last_file_to_analyze)

\* A loop that tests the range only after its first pass
InRangeTestedAfterBody == pc = "loop" /\ (MoreFiles \/ file_num = RangeStart)

\* The loop body is entered: range() is tested before every pass, the first
\* one included
InRange == pc = "loop" /\ MoreFiles

ReadFrame ==
    UNCHANGED <<configVars, storeVars, snapshot, num_gals_all_files, call,
                properties0, bins0, ops_left>>

\* An engine that puts the store back as it was when an error passes through
ReadRaisesRollsBack ==
    /\ InRange
    /\ Event([op |-> "read", file |-> Val(file_num), gals |-> None, raised |-> TRUE])
    /\ pc' = "raised"
    /\ outcome' = "IOError"
    /\ properties' = properties0
    /\ bins' = bins0
    /\ UNCHANGED <<file_num, gals, func_idx>>
    /\ UNCHANGED <<configVars, snapshot, num_gals_all_files, call, properties0, bins0, ops_left>>

\* read_gals raises: the error leaves calc_properties_all_files
ReadRaises ==
    /\ InRange
    /\ trace' = Unwind(Append(trace, [op |-> "read", file |-> Val(file_num),
                                      gals |-> None, raised |-> TRUE]))
    /\ pc' = "raised"
    /\ outcome' = "IOError"
    /\ UNCHANGED <<file_num, gals, func_idx>>
    /\ ReadFrame

\* A loop without the test for None: the functions run on an empty batch
ReadSkipInvokes ==
    /\ InRange
    /\ Event([op |-> "read", file |-> Val(file_num), gals |-> None, raised |-> FALSE])
    /\ gals' = Some(<<>>)
    /\ func_idx' = 1
    /\ pc' = "calc"
    /\ UNCHANGED <<file_num, outcome>>
    /\ ReadFrame

\* read_gals returns None: the file is skipped
ReadSkip ==
    /\ InRange
    /\ Event([op |-> "read", file |-> Val(file_num), gals |-> None, raised |-> FALSE])
    /\ file_num' = Some(Val(file_num) + 1)
    /\ pc' = "loop"
    /\ UNCHANGED <<gals, func_idx, outcome>>
    /\ ReadFrame

\* read_gals returns the galaxies of the file: calc_properties is entered
ReadGals ==
    /\ InRange
    /\ \E b \in Batches :
         /\ Event([op |-> "read", file |-> Val(file_num), gals |-> Some(b), raised |-> FALSE])
         /\ gals' = Some(b)
    /\ func_idx' = 1
    /\ pc' = "calc"
    /\ UNCHANGED <<file_num, outcome>>
    /\ ReadFrame

\* Every entry is passed the keyword arguments of the first one
KwargsOfFirst(funcs, i) == funcs[1].kwargs

\* The keyword arguments calc_properties passes to entry i of funcs
KwargsFor(funcs, i) == funcs[i].kwargs

\* A loop over the values that leaves out every second entry
NextEntrySkips(i) == i + 2

\* for func, kwargs in calculation_functions.values(): the entry after entry i
NextEntry(i) == i + 1

\* A loop over the values from the last inserted entry to the first
EntryReversed(funcs, i) == funcs[Len(funcs) + 1 - i]

\* calculation_functions.values(): a dict iterates in insertion order
EntryAt(funcs, i) == funcs[i]

\* calc_properties: the next entry of calculation_functions.values() is invoked
CalcInvoke ==
    /\ pc = "calc"
    /\ func_idx <= Len(Args.calculation_functions)
    /\ LET funcs  == Args.calculation_functions
           e      == EntryAt(funcs, func_idx)
           kwargs == KwargsFor(funcs, func_idx)
           r      == Invoke(e.func, properties, bins, Val(gals), Args.snapshot, kwargs)
           ev     == [op |-> "calc", toggle |-> e.toggle, func |-> e.func,
                      file |-> Val(file_num), gals |-> Val(gals),
                      snapshot |-> Args.snapshot, kwargs |-> kwargs,
                      seen |-> properties, err |-> r.err]
       IN /\ trace' = IF r.err = "none"
                      THEN Append(trace, ev)
                      ELSE Unwind(Append(trace, ev))
          /\ properties' = r.properties
          /\ IF r.err = "none"
             THEN func_idx' = NextEntry(func_idx) /\ pc' = pc /\ outcome' = outcome
             ELSE func_idx' = func_idx /\ pc' = "raised" /\ outcome' = r.err
    /\ UNCHANGED <<configVars, bins, snapshot, num_gals_all_files, call, file_num, gals,
                   properties0, bins0, ops_left>>

\* calc_properties returns: the loop goes on to the next file
CalcReturn ==
    /\ pc = "calc"
    /\ func_idx > Len(Args.calculation_functions)
    /\ file_num' = Some(Val(file_num) + 1)
    /\ gals' = None
    /\ func_idx' = 0
    /\ pc' = "loop"
    /\ UNCHANGED <<configVars, storeVars, snapshot, num_gals_all_files, call, outcome,
                   trace, properties0, bins0, ops_left>>

\* The loop is exhausted: if close_file: self.data_class.close_file(self); return
Finish ==
    /\ pc = "loop"
    /\ ~MoreFiles
    /\ trace' = IF Args.close_file THEN Append(trace, [op |-> "close"]) ELSE trace
    /\ pc' = "returned"
    /\ outcome' = "returned"
    /\ UNCHANGED <<configVars, storeVars, snapshot, num_gals_all_files, call, file_num,
                   gals, func_idx, properties0, bins0, ops_left>>

\* The file ranges of the models analysed: both ends given, or neither
FileRanges == {<<None, None>>} \cup {<<Some(a), Some(b)>> : a \in FileIndexes, b \in FileIndexes}

\* A Model constructed for a "sage_hdf5" output and one of the file ranges,
\* before any other method is called
Constructed(ranges) ==
    /\ \E range \in ranges :
         LET fmt   == Some("sage_hdf5")
             first == range[1]
             lastf == range[2]
             m     == ModelInit(fmt, first, lastf, None, "Chabrier")
         IN /\ InitError(fmt, first, lastf, None) = "none"
            /\ last = [op |-> "__init__", arg |-> <<fmt, first, lastf, None, "Chabrier">>,
                       err |-> "none"]
            /\ sage_output_format = m.sage_output_format
            /\ first_file_to_analyze = m.first_file_to_analyze
            /\ last_file_to_analyze = m.last_file_to_analyze
            /\ num_sage_output_files = m.num_sage_output_files
            /\ IMF = m.IMF
            /\ bins = m.bins
            /\ properties = m.properties
    /\ phase = "constructed"
    /\ box_size = MaxBoxSize
    /\ volume = None
    /\ properties0 = EmptyDict
    /\ bins0 = EmptyDict
    /\ Idle

Init == Constructed(FileRanges) /\ ops_left = MaxOps

\* The Model of the files 0 and 1, followed for one method call more
LongInit == Constructed({<<Some(0), Some(1)>>}) /\ ops_left = MaxOps + 1

Next ==
    \/ init_binned_properties
    \/ init_scatter_properties
    \/ init_single_properties
    \/ Lookup
    \/ CallAllFiles
    \/ Position
    \/ Count
    \/ Range
    \/ ReadRaises
    \/ ReadSkip
    \/ ReadGals
    \/ CalcInvoke
    \/ CalcReturn
    \/ Finish

Spec == Init /\ [][Next]_vars

LongSpec == LongInit /\ [][Next]_vars

----------------------------------------------------------------------------
(* Properties of calc_properties_all_files, checked under Spec *)

TraceIdx == 1..Len(trace)
IsRead(i) == trace[i].op = "read"
IsCalc(i) == trace[i].op = "calc"
\* The reads that returned galaxies, in the order they were made
GalsReads == SelectSeq(trace, LAMBDA e : e.op = "read" /\ e.gals # None)
GalsBatches == [i \in 1..Len(GalsReads) |-> Val(GalsReads[i].gals)]
NClose == Cardinality({i \in TraceIdx : trace[i].op = "close"})

\* The call returned normally after a non-zero galaxy count
Completed == pc = "returned" /\ num_gals_all_files # Some(0)

\* Every file of [first, last] was read exactly once, and no other file
AllFilesRead ==
    /\ \A f \in Val(first_file_to_analyze)..Val(last_file_to_analyze) :
           Cardinality({i \in TraceIdx : IsRead(i) /\ trace[i].file = f}) = 1
    /\ \A i \in TraceIdx : IsRead(i) =>
           trace[i].file \in Val(first_file_to_analyze)..Val(last_file_to_analyze)

HasAcc(props, key, name) == key \in DOMAIN props /\ name \in DOMAIN props[key]

Perms(n) == {p \in [1..n -> 1..n] : \A i \in 1..n, j \in 1..n : i # j => p[i] # p[j]}
Permuted(a, p) == [i \in 1..Len(a) |-> a[p[i]]]

RECURSIVE SumOver(_, _)
SumOver(S, f) ==
    IF S = {} THEN 0 ELSE LET x == CHOOSE y \in S : TRUE IN f[x] + SumOver(S \ {x}, f)

\* C1: when determine_num_gals reports 0, the call returns normally, no batch
\* was requested and no calculation function invoked, and the property store
\* and the bin registry are as they were when the call started.
EmptySnapshotLeavesStoreUntouched ==
    /\ (pc = "returned" /\ num_gals_all_files = Some(0)) =>
          /\ outcome = "returned"
          /\ properties = properties0
          /\ bins = bins0
          /\ \A i \in TraceIdx : ~IsRead(i) /\ ~IsCalc(i)
    /\ (pc \notin {"idle", "position", "count"} /\ trace # <<>>
          /\ \E i \in TraceIdx : trace[i].op = "count" /\ trace[i].n = 0)
          => pc = "returned"

\* C1 witness: a call found no galaxies and returned, with a property store and
\* a bin registry that had been initialised for its snapshot.
EmptySnapshotWithInitialisedStore ==
    /\ pc = "returned"
    /\ num_gals_all_files = Some(0)
    /\ Len(trace) = 2
    /\ DOMAIN bins # {}
    /\ HasAcc(properties, SnapKey(Args.snapshot), "SMF")

\* C2 (as claimed): in every call that returns normally, close_file of the data
\* class is invoked exactly once if close_file was requested and never if not,
\* also when no galaxies were found.
CloseExactlyWhenRequested ==
    pc = "returned" => NClose = IF Args.close_file THEN 1 ELSE 0

\* C3: when read_gals returns None for a file, no calculation function is invoked
\* for that file and the loop goes on with the next one: after a normal return
\* every file of the range was read once, and the store is what processing the
\* files that were not skipped, alone and in the same order, produces.
SkippedFilesContributeNothing ==
    /\ \A i \in TraceIdx, j \in TraceIdx :
          (IsRead(i) /\ trace[i].gals = None /\ IsCalc(j)) => trace[j].file # trace[i].file
    /\ Completed =>
          /\ AllFilesRead
          /\ properties = ProcessFiles(properties0, bins0, Args.calculation_functions,
                                       Args.snapshot, GalsBatches).properties
          /\ bins = bins0

\* C3 witness: in the range [0, 1] file 0 gave galaxies and file 1 was skipped,
\* and the call returned having changed the store.
SecondFileSkipped ==
    /\ Completed
    /\ Len(trace) >= 4
    /\ \E i \in TraceIdx, j \in TraceIdx :
         /\ IsRead(i) /\ trace[i].file = 0 /\ trace[i].gals = Some(<<1, 2>>)
         /\ IsRead(j) /\ trace[j].file = 1 /\ trace[j].gals = None /\ ~trace[j].raised
    /\ properties # properties0

ScalarTotalIsSumOfContributions ==
    (Completed /\ \E k \in 1..Len(Args.calculation_functions) :
                     Args.calculation_functions[k] = TotalMassEntry) =>
      LET key == SnapKey(Args.snapshot)
          start == properties0[key]["TotalMass"]
          contribution == [i \in 1..Len(GalsBatches) |->
                              TotalMassEntry.kwargs.scale * Sum(GalsBatches[i])]
      IN (HasAcc(properties0, key, "TotalMass") /\ start.kind = "float") =>
           /\ AllFilesRead
           /\ properties[key]["TotalMass"]
                = Float(start.val[1] + SumOver(1..Len(GalsBatches), contribution))
           /\ \A p \in Perms(Len(GalsBatches)) :
                ProcessFiles(properties0, bins0, Args.calculation_functions, Args.snapshot,
                             Permuted(GalsBatches, p)).properties[key]["TotalMass"]
                  = properties[key]["TotalMass"]

\* C5 witness: file 0 held the mass 3 and file 1 the masses 1 and 2, and the
\* total, 0 at the start of the call, is 6.
TotalMassSixFromBothFiles ==
    /\ Completed
    /\ \E i \in TraceIdx, j \in TraceIdx :
         /\ IsRead(i) /\ trace[i].file = 0 /\ trace[i].gals = Some(<<3>>)
         /\ IsRead(j) /\ trace[j].file = 1 /\ trace[j].gals = Some(<<1, 2>>)
    /\ HasAcc(properties0, SnapKey(Args.snapshot), "TotalMass")
    /\ properties0[SnapKey(Args.snapshot)]["TotalMass"] = Float(0)
    /\ properties[SnapKey(Args.snapshot)]["TotalMass"] = Float(6)

\* C6: after a call that returns, a binned accumulator "SMF" (as long as its bin
\* edges need) that a registered calc_SMF adds to holds in every bin its count
\* at the start of the call plus the number of galaxies of all files of the
\* range whose mass lies in that bin; every galaxy lies in exactly one bin; and
\* processing the batches in any other order gives the same counts.
HistogramCountsAreOrderIndependent ==
    (Completed /\ \E k \in 1..Len(Args.calculation_functions) :
                     Args.calculation_functions[k] = SMFEntry) =>
      LET key == SnapKey(Args.snapshot)
          start == properties0[key]["SMF"]
          edges == bins0[SMFEntry.kwargs.bin_name]
          galaxies == {<<i, r>> \in (1..Len(GalsBatches)) \X (1..3) :
                          r <= Len(GalsBatches[i])}
          InBinOf(g, b) == InBin(GalsBatches[g[1]][g[2]], edges, b)
      IN (HasAcc(properties0, key, "SMF") /\ start.kind = "ndarray"
            /\ SMFEntry.kwargs.bin_name \in DOMAIN bins0
            /\ Len(start.val) = Len(edges) - 1) =>
           /\ AllFilesRead
           /\ properties[key]["SMF"].kind = "ndarray"
           /\ Len(properties[key]["SMF"].val) = Len(start.val)
           /\ \A b \in 1..Len(start.val) :
                properties[key]["SMF"].val[b]
                  = start.val[b] + Cardinality({g \in galaxies : InBinOf(g, b)})
           /\ \A g \in galaxies :
                Cardinality({b \in 1..Len(start.val) : InBinOf(g, b)}) = 1
           /\ \A p \in Perms(Len(GalsBatches)) :
                ProcessFiles(properties0, bins0, Args.calculation_functions, Args.snapshot,
                             Permuted(GalsBatches, p)).properties[key]["SMF"]
                  = properties[key]["SMF"]

\* C6 witness: with the edges 0, 1, 2, 3 file 0 held the masses 1 and 2 and
\* file 1 the mass 3, and the counts, all 0 at the start, are 0, 1, 2.
HistogramFromBothFiles ==
    /\ Completed
    /\ \E i \in TraceIdx, j \in TraceIdx :
         /\ IsRead(i) /\ trace[i].file = 0 /\ trace[i].gals = Some(<<1, 2>>)
         /\ IsRead(j) /\ trace[j].file = 1 /\ trace[j].gals = Some(<<3>>)
    /\ "stellar_mass_bins" \in DOMAIN bins0
    /\ bins0["stellar_mass_bins"] = <<0, 1, 2, 3>>
    /\ HasAcc(properties0, SnapKey(Args.snapshot), "SMF")
    /\ properties0[SnapKey(Args.snapshot)]["SMF"] = NdArray(<<0, 0, 0>>)
    /\ properties[SnapKey(Args.snapshot)]["SMF"] = NdArray(<<0, 1, 2>>)

\* The invocations that raised, and the accumulators a store holds
Failing(i) == (IsRead(i) /\ trace[i].raised) \/ (IsCalc(i) /\ trace[i].err # "none")
Accs(props) ==
    {<<kn[1], kn[2], props[kn[1]][kn[2]]>> :
        kn \in {x \in (DOMAIN props) \X PropertyNames : x[2] \in DOMAIN props[x[1]]}}

\* The store after the invocations evs, made one after another on props
RECURSIVE Replay(_, _, _)
Replay(props, bns, evs) ==
    IF evs = <<>>
    THEN props
    ELSE Replay(Invoke(evs[1].func, props, bns, evs[1].gals, evs[1].snapshot,
                       evs[1].kwargs).properties,
                bns, Tail(evs))
CompletedCalcs == SelectSeq(trace, LAMBDA e : e.op = "calc" /\ e.err = "none")

\* C13: when read_gals or a calculation function raises, the error leaves
\* calc_properties_all_files; nothing is read or invoked after it (the raising
\* invocation is the last one of the call and the only one that raised); and
\* the store holds the accumulators that the invocations completed before it
\* produced from the store the call started with, those of earlier files and of
\* earlier functions on the same batch included.
FaultPropagatesWithoutRollback ==
    /\ \A i \in TraceIdx : Failing(i) =>
          /\ i = Len(trace)
          /\ pc = "raised"
          /\ outcome = IF IsRead(i) THEN "IOError" ELSE trace[i].err
          /\ Accs(properties) = Accs(Replay(properties0, bins0, CompletedCalcs))
          /\ IsRead(i) => properties = Replay(properties0, bins0, CompletedCalcs)
          /\ bins = bins0
    /\ pc = "raised" =>
          \/ \E i \in TraceIdx : Failing(i)
          \/ RangeError /\ outcome = "TypeError" /\ \A i \in TraceIdx : ~IsRead(i)

\* C13 witness: read_gals raised for file 1 after file 0 had been added to
\* "TotalMass", and the call ended with the error and the total of file 0.
SecondReadRaisedAfterFirstFileCounted ==
    /\ pc = "raised"
    /\ outcome = "IOError"
    /\ trace[Len(trace)].op = "read"
    /\ trace[Len(trace)].file = 1
    /\ Len(CompletedCalcs) >= 1
    /\ HasAcc(properties0, SnapKey(Args.snapshot), "TotalMass")
    /\ properties0[SnapKey(Args.snapshot)]["TotalMass"] = Float(0)
    /\ properties[SnapKey(Args.snapshot)]["TotalMass"] = Float(3)

\* The files read_gals was called for, in the order of the calls
ReadFiles ==
    LET reads == SelectSeq(trace, LAMBDA e : e.op = "read")
    IN [i \in 1..Len(reads) |-> reads[i].file]

\* C14: read_gals is called for the files first_file_to_analyze,
\* first_file_to_analyze + 1, ... in this order, each once and none beyond
\* last_file_to_analyze; a call that returns after a non-zero galaxy count has
\* called it for every file up to last_file_to_analyze.
FilesReadOnceInAscendingOrder ==
    /\ \A i \in 1..Len(ReadFiles) :
          /\ ReadFiles[i] = Val(first_file_to_analyze) + i - 1
          /\ ReadFiles[i] <= Val(last_file_to_analyze)
    /\ Completed =>
          Len(ReadFiles) = IF Val(last_file_to_analyze) >= Val(first_file_to_analyze)
                           THEN Val(last_file_to_analyze) - Val(first_file_to_analyze) + 1
                           ELSE 0

\* C14 witness: a call on the range [0, 1] returned after reading file 0 and
\* then file 1, both with galaxies.
BothFilesReadInOrder ==
    /\ Completed
    /\ first_file_to_analyze = Some(0)
    /\ last_file_to_analyze = Some(1)
    /\ ReadFiles = <<0, 1>>
    /\ Len(GalsReads) = 2

\* The read_gals call that gave the batch of invocation j, and the invocations
\* made before j
BatchRead(j) ==
    CHOOSE r \in 1..(j - 1) : IsRead(r) /\ \A m \in (r + 1)..(j - 1) : ~IsRead(m)
CalcsBefore(j) == SelectSeq(SubSeq(trace, 1, j - 1), LAMBDA e : e.op = "calc")

\* C15: the invocations on one batch follow its read_gals call with nothing in
\* between, the k-th of them is the k-th entry of calculation_functions in
\* insertion order, and it is given the store as every invocation before it
\* (on this batch and on earlier ones) left it; the next file is read only when
\* every entry has been invoked on the batch.
EntriesInvokedInInsertionOrder ==
    call # None =>
      LET funcs == Args.calculation_functions
      IN /\ \A j \in TraceIdx : IsCalc(j) =>
               LET r == BatchRead(j)
                   k == j - r
               IN /\ \A m \in (r + 1)..(j - 1) : IsCalc(m) /\ trace[m].err = "none"
                  /\ k <= Len(funcs)
                  /\ trace[j].toggle = funcs[k].toggle
                  /\ trace[j].func = funcs[k].func
                  /\ trace[j].kwargs = funcs[k].kwargs
                  /\ trace[j].file = trace[r].file
                  /\ Some(trace[j].gals) = trace[r].gals
                  /\ trace[j].seen = Replay(properties0, bins0, CalcsBefore(j))
         /\ \A m \in TraceIdx :
               (IsRead(m) /\ m > 1 /\ trace[m - 1].op \in {"read", "calc"}) =>
                  \/ trace[m - 1].op = "read" /\ trace[m - 1].gals = None
                  \/ /\ m - 1 - Len(funcs) >= 1
                     /\ IsRead(m - 1 - Len(funcs))
                     /\ \A x \in (m - Len(funcs))..(m - 1) : IsCalc(x)

\* C15 witness: with calc_SMF inserted before calc_TotalMass and two batches,
\* the invocations were SMF, TotalMass, SMF, TotalMass, and the first
\* calc_TotalMass was given a store that calc_SMF had changed.
SMFBeforeTotalMassOnBothBatches ==
    /\ Completed
    /\ Args.calculation_functions = <<SMFEntry, TotalMassEntry>>
    /\ Len(trace) >= 8
    /\ [i \in 3..8 |-> IF IsCalc(i) THEN trace[i].toggle ELSE trace[i].op]
         = [i \in 3..8 |-> <<"read", "SMF", "TotalMass", "read", "SMF", "TotalMass">>[i - 2]]
    /\ trace[5].seen # properties0
    /\ trace[5].seen # properties

\* C16: in every call of calc_properties_all_files the data class is positioned
\* first and once, for the snapshot of the call; the galaxies are counted second
\* and once, before any read_gals call; and close_file, when it is called, is
\* the last thing the call does, after every read_gals call and every
\* invocation, and only when it was asked for.
CallFollowsStateMachine ==
    call # None =>
      /\ \A i \in TraceIdx :
            /\ trace[i].op = "position" <=> i = 1
            /\ trace[i].op = "count" <=> i = 2
            /\ trace[i].op = "close" =>
                  /\ i = Len(trace)
                  /\ pc = "returned"
                  /\ Args.close_file
                  /\ Cardinality({j \in TraceIdx : trace[j].op = "close"}) = 1
      /\ pc # "position" => Len(trace) >= 1 /\ trace[1].snapshot = Args.snapshot
      /\ pc \notin {"position", "count"} =>
            Len(trace) >= 2 /\ num_gals_all_files = Some(trace[2].n)
      /\ (pc = "returned" /\ Args.close_file /\ num_gals_all_files # Some(0)) =>
            trace[Len(trace)].op = "close"

\* C16 witness: a call went through position, count, two reads with their
\* invocations and, last, close.
PositionCountReadsClose ==
    /\ pc = "returned"
    /\ Len(trace) >= 7
    /\ trace[1].op = "position"
    /\ trace[2].op = "count"
    /\ trace[3].op = "read"
    /\ trace[4].op = "calc"
    /\ trace[Len(trace) - 1].op = "calc"
    /\ trace[Len(trace)].op = "close"
    /\ Len(GalsReads) = 2

\* C21: when read_gals or a calculation function raises during
\* calc_properties_all_files, the call ends with that error and close_file of
\* the data class is not called in it, before or after the error, whether or
\* not close_file was asked for: the call never returns, so the data source
\* stays open.
AbortLeavesSourceOpen ==
    (call # None /\ \E i \in TraceIdx : Failing(i)) =>
        /\ pc = "raised"
        /\ outcome # "returned"
        /\ NClose = 0
        /\ Failing(Len(trace))

\* C21 witness: a call that asked for close_file added the batch of a file to
\* "TotalMass", then calc_SMF raised KeyError, and the call ended without
\* close_file.
CalcRaisedWithCloseRequested ==
    /\ pc = "raised"
    /\ Args.close_file
    /\ outcome = "KeyError"
    /\ IsCalc(Len(trace))
    /\ trace[Len(trace)].func = "calc_SMF"
    /\ Len(CompletedCalcs) >= 1
    /\ NClose = 0

\* The file range of the Model holds no file
EmptyRange ==
    /\ ~RangeError
    /\ Val(first_file_to_analyze) > Val(last_file_to_analyze)

\* C22: a call of calc_properties_all_files on a Model whose
\* first_file_to_analyze is greater than its last_file_to_analyze never calls
\* read_gals and never invokes a calculation function, leaves properties and
\* bins as they were when it started, and does not raise; when the galaxy count
\* was non-zero it returns after position and count with exactly one
\* close_file call if close_file was asked for, and with none if it was not.
EmptyRangeOnlyCloses ==
    (call # None /\ EmptyRange) =>
        /\ \A i \in TraceIdx : ~IsRead(i) /\ ~IsCalc(i)
        /\ properties = properties0
        /\ bins = bins0
        /\ pc # "raised"
        /\ Completed =>
              /\ NClose = IF Args.close_file THEN 1 ELSE 0
              /\ [i \in TraceIdx |-> trace[i].op] =
                    IF Args.close_file
                    THEN <<"position", "count", "close">>
                    ELSE <<"position", "count">>

\* C22 witness: on the Model of the files 1..0, with an initialised store and a
\* count of galaxies that is not zero, a call that asked for close_file returned
\* after position, count and one close_file.
EmptyRangeClosedOnce ==
    /\ Completed
    /\ first_file_to_analyze = Some(1)
    /\ last_file_to_analyze = Some(0)
    /\ Args.close_file
    /\ NClose = 1
    /\ Len(trace) = 3
    /\ properties # EmptyDict
    /\ properties = properties0

----------------------------------------------------------------------------
(* Properties of the property store and the bin registry, checked under    *)
(* Spec                                                                    *)

UninitialisedLookupRaises ==
    [][(last'.op = "properties" /\ ops_left' = ops_left - 1) =>
         LET key  == SnapKey(last'.arg[1])
             name == last'.arg[2]
         IN /\ (key \notin DOMAIN properties)
                 => last'.err = "KeyError" /\ last'.ret = None
            /\ (key \in DOMAIN properties /\ name \notin DOMAIN properties[key])
                 => last'.err = "KeyError" /\ last'.ret = None
            /\ HasAcc(properties, key, name)
                 => last'.err = "none" /\ last'.ret = Some(properties[key][name])]_vars

\* C12 witness: "SMF" was looked up under a snapshot key that holds "TotalMass"
\* only, and the lookup raised KeyError.
LookupOfAbsentNameRaised ==
    /\ last.op = "properties"
    /\ last.arg[2] = "SMF"
    /\ last.err = "KeyError"
    /\ SnapKey(last.arg[1]) \in DOMAIN properties
    /\ DOMAIN properties[SnapKey(last.arg[1])] = {"TotalMass"}

InitOps == {"init_binned_properties", "init_scatter_properties", "init_single_properties"}
\* The property names and the snapshot key of the initialiser call in last
InitNames == IF last.op = "init_binned_properties" THEN last.arg[5] ELSE last.arg[1]
InitKey   == SnapKey(IF last.op = "init_binned_properties" THEN last.arg[6] ELSE last.arg[2])

\* C17: an initialiser called with the names P and the snapshot s leaves under
\* (s, p), for every p in P, the initial value of its shape (zeros, one fewer
\* than the edges of its bin name; an empty array; 0.0) whatever was stored
\* there before, and leaves every other (snapshot, name) of the store as it
\* was: none changed, none removed, none added.
InitOverwritesOnlyItsNames ==
    last.op \in InitOps =>
      LET initial == IF last.op = "init_binned_properties"
                     THEN NdArray([i \in 1..(Len(bins[last.arg[4]]) - 1) |-> 0])
                     ELSE IF last.op = "init_scatter_properties"
                          THEN NdArray(<<>>)
                          ELSE Float(0)
          Named(k, n) == k = InitKey /\ n \in InitNames
      IN /\ \A p \in InitNames :
               HasAcc(properties, InitKey, p) /\ properties[InitKey][p] = initial
         /\ \A k \in DOMAIN properties0, n \in PropertyNames :
               (n \in DOMAIN properties0[k] /\ ~Named(k, n)) =>
                  HasAcc(properties, k, n) /\ properties[k][n] = properties0[k][n]
         /\ \A k \in DOMAIN properties, n \in PropertyNames :
               (n \in DOMAIN properties[k] /\ ~Named(k, n)) => HasAcc(properties0, k, n)

\* C17 witness: init_single_properties(["TotalMass"], s) found under s a
\* "TotalMass" array that a call had added to and an "SMF" with counts; it left
\* 0.0 for "TotalMass" and the counts of "SMF".
InitSingleOverAccumulatedArray ==
    /\ last.op = "init_single_properties"
    /\ last.arg[1] = {"TotalMass"}
    /\ HasAcc(properties0, InitKey, "SMF")
    /\ properties0[InitKey]["TotalMass"] = NdArray(<<6, 6, 6>>)
    /\ properties0[InitKey]["SMF"] = NdArray(<<0, 1, 2>>)
    /\ properties[InitKey]["TotalMass"] = Float(0)
    /\ properties[InitKey]["SMF"] = NdArray(<<0, 1, 2>>)

\* The shape of an accumulator as its value shows it: a number or an array
Shape(acc) == IF acc.kind = "float" THEN "scalar" ELSE "array"

\* C18 (as claimed): an accumulator that was initialised keeps its shape: after
\* any method call (an initialiser, a lookup, the steps of
\* calc_properties_all_files) every (snapshot, name) the store held when the call
\* started is still there with the shape it had.
ShapeFixedOnceInitialised ==
    \A k \in DOMAIN properties0, n \in PropertyNames :
        n \in DOMAIN properties0[k] =>
           /\ HasAcc(properties, k, n)
           /\ Shape(properties[k][n]) = Shape(properties0[k][n])

\* C19 (as claimed): a bin name keeps the edges it was registered with through
\* every later method call, and every array of counts is one shorter than the
\* edges of the bin name (the model has one bin name, which every binned
\* accumulator is declared with).
BinEdgesNeverChange ==
    /\ \A b \in DOMAIN bins0 : b \in DOMAIN bins /\ bins[b] = bins0[b]
    /\ \A b \in DOMAIN bins, k \in DOMAIN properties, n \in PropertyNames :
          (n \in DOMAIN properties[k] /\ properties[k][n].kind = "ndarray"
             /\ Len(properties[k][n].val) > 0) =>
                Len(properties[k][n].val) = Len(bins[b]) - 1

\* During a call the store is the store the call started with, changed by the
\* invocations made so far, one after another
CarriedThroughCall ==
    pc \in {"position", "count", "range", "loop", "calc", "returned"} =>
       /\ properties = Replay(properties0, bins0, CompletedCalcs)
       /\ bins = bins0

\* What a second call with the same arguments, given the same batches, would
\* leave of "TotalMass": the start of the call plus twice its contribution
TwiceTheContribution ==
    (Completed /\ HasAcc(properties0, SnapKey(Args.snapshot), "TotalMass")
       /\ properties0[SnapKey(Args.snapshot)]["TotalMass"].kind = "float") =>
      LET key   == SnapKey(Args.snapshot)
          again == ProcessFiles(properties, bins, Args.calculation_functions,
                                Args.snapshot, GalsBatches)
      IN /\ again.err = "none"
         /\ again.properties[key]["TotalMass"].val[1]
              = properties0[key]["TotalMass"].val[1]
                  + 2 * (properties[key]["TotalMass"].val[1]
                           - properties0[key]["TotalMass"].val[1])

\* C20: no step of calc_properties_all_files changes the bin registry or the
\* calculation_functions it was given; the only steps that change the property
\* store are the invocations of the calculation functions, each changing it as
\* the function does; so the store is at every point what the call started with
\* plus the invocations so far, carried from file to file and into the next
\* call, and a second call with the same batches adds the same amounts again.
EngineLeavesStoreToFunctions ==
    /\ [][pc' # "idle" =>
            /\ bins' = bins
            /\ (pc # "idle" /\ pc' # "position") => call' = call
            /\ properties' # properties =>
                  /\ pc = "calc"
                  /\ Len(trace') = Len(trace) + 1
                  /\ LET e == trace'[Len(trace')]
                     IN /\ e.op = "calc"
                        /\ properties' = Invoke(e.func, properties, bins, e.gals,
                                                e.snapshot, e.kwargs).properties]_vars
    /\ [](CarriedThroughCall /\ TwiceTheContribution)

\* C20 witness: a second call for the same snapshot started with the total 6
\* and the counts 0, 1, 2 that the first had left, read the same masses and
\* returned with the total 12 and the counts 0, 2, 4.
SecondCallDoubledTheAccumulators ==
    /\ Completed
    /\ Len(GalsBatches) = 2
    /\ HasAcc(properties0, SnapKey(Args.snapshot), "SMF")
    /\ properties0[SnapKey(Args.snapshot)]["TotalMass"] = NdArray(<<6, 6, 6>>)
    /\ properties0[SnapKey(Args.snapshot)]["SMF"] = NdArray(<<0, 1, 2>>)
    /\ properties[SnapKey(Args.snapshot)]["TotalMass"] = NdArray(<<12, 12, 12>>)
    /\ properties[SnapKey(Args.snapshot)]["SMF"] = NdArray(<<0, 2, 4>>)

----------------------------------------------------------------------------
(* Properties of the validated attributes and of the constructor,          *)
(* checked under ConfigSpec                                                *)

\* C7: assigning volume succeeds if and only if the value is <= box_size cubed
\* (equality accepted); a rejected assignment raises and leaves the stored
\* volume as it was; a stored volume never exceeds box_size cubed.
VolumeAssignmentValidated ==
    /\ [][SetVolume =>
            LET vol == last'.arg[1]
            IN /\ last'.op = "volume"
               /\ (last'.err = "none" <=> vol <= box_size * box_size * box_size)
               /\ (last'.err = "none" => volume' = Some(vol))
               /\ (last'.err # "none" => last'.err = "ValueError" /\ volume' = volume)]_vars
    /\ [](volume # None => Val(volume) <= box_size * box_size * box_size)

\* C7 witness: the volume box_size cubed was accepted, and a later assignment of
\* a larger value was rejected and left it stored.
VolumeRejectedAfterEqualAccepted ==
    /\ last.op = "volume"
    /\ last.err = "ValueError"
    /\ last.arg[1] > box_size * box_size * box_size
    /\ volume = Some(box_size * box_size * box_size)

\* C8: assigning IMF a label outside {"Chabrier", "Salpeter"} raises and leaves
\* the stored IMF as it was; assigning either recognised label stores it.
IMFAssignmentValidated ==
    [][SetIMF =>
         LET imf == last'.arg[1]
         IN /\ last'.op = "IMF"
            /\ (imf \in {"Chabrier", "Salpeter"} => last'.err = "none" /\ IMF' = Some(imf))
            /\ (imf \notin {"Chabrier", "Salpeter"} => last'.err = "ValueError" /\ IMF' = IMF)]_vars

\* C8 witness: "Salpeter" was stored by an assignment, and a later assignment of
\* an unrecognised label was rejected and left it stored.
IMFRejectedAfterSalpeterAccepted ==
    /\ last.op = "IMF"
    /\ last.err = "ValueError"
    /\ last.arg[1] = "Kroupa"
    /\ IMF = Some("Salpeter")

\* C9 (as claimed): the IMF of a constructed Model is always one of the two
\* recognised labels, and a constructor call with an unrecognised IMF fails.
IMFAlwaysRecognised ==
    /\ (phase = "constructed" => IMF \in {Some("Chabrier"), Some("Salpeter")})
    /\ (last.op = "__init__" /\ last.arg[5] \notin {"Chabrier", "Salpeter"}
          => last.err # "none" /\ phase = "failed")

\* C10: with output format "sage_binary" the constructor raises when
\* num_sage_output_files is missing and when first_file_to_analyze or
\* last_file_to_analyze is missing; with any other format (None included) the
\* same missing values do not make it raise.
ConstructorRequiresFilesForBinary ==
    last.op = "__init__" =>
        LET fmt   == last.arg[1]
            first == last.arg[2]
            lastf == last.arg[3]
            num   == last.arg[4]
            missing == num = None \/ first = None \/ lastf = None
        IN /\ (fmt = Some("sage_binary") /\ missing
                 => last.err = "RuntimeError" /\ phase = "failed")
           /\ (fmt # Some("sage_binary")
                 => last.err = "none" /\ phase = "constructed")
           /\ (fmt = Some("sage_binary") /\ ~missing
                 => last.err = "none" /\ phase = "constructed")

\* C10 witness: a "sage_binary" construction that gave the file count but not
\* the last file failed.
BinaryWithoutLastFileFailed ==
    /\ last.op = "__init__"
    /\ last.arg[1] = Some("sage_binary")
    /\ last.arg[2] # None
    /\ last.arg[3] = None
    /\ last.arg[4] # None
    /\ last.err = "RuntimeError"
    /\ phase = "failed"

====
